---- MODULE Spec2Model ----
(***************************************************************************)
(* Model of codebase/data/datamodule.py: the CenterCropMinXY transform and *)
(* the DataModule (construction, prepare_data, setup, the three loaders).  *)
(*                                                                         *)
(* A DataModule is modelled by its attributes.  The library objects it     *)
(* builds (datasets, transform chains, DataLoaders) are modelled by the    *)
(* arguments the code passes to their constructors.                        *)
(***************************************************************************)
EXTENDS Integers, Sequences, FiniteSets, TLC

(* ------------------------------ bounds -------------------------------- *)
\* img_channels arguments are drawn from 0..MaxChannels
MaxChannels == 4
\* requested batch_size arguments are drawn from 1..MaxBatch
MaxBatch == 3
\* torch.cuda.device_count() is drawn from 0..MaxDevices
MaxDevices == 2
\* train_val_split is the fraction p / SplitDen, p in -1..SplitDen + 1
SplitDen == 3
\* len(full_train_dataset) of the MNIST training split
TrainLen == 2
\* tensors given to CenterCropMinXY have 1..MaxC channels
MaxC == 2
\* ... and heights and widths in 0..MaxDim
MaxDim == 4

(* ------------------------------ inputs -------------------------------- *)
RecognisedNames == {"MNIST", "LSUN", "CelebA", "Flowers102", "SEN12MSCR"}
\* one name that no branch of the code mentions
Names == RecognisedNames \cup {"CIFAR10"}
ImgSizes == {28, 64}
\* <<num_workers, pin_memory, persistent_workers>>: the defaults and two others
LoaderArgs == { <<0, TRUE, TRUE>>, <<2, FALSE, TRUE>>, <<2, TRUE, FALSE>> }
SplitNumerators == (-1)..(SplitDen + 1)

VARIABLES
    \* --- the environment
    device_count,        \* torch.cuda.device_count()
    \* --- attributes of the DataModule
    name, data_dir, img_size, img_channels, batch_size, num_workers,
    pin_memory, persistent_workers,
    train_val_split,     \* numerator p of the fraction p / SplitDen
    download, transforms,
    train_dataset, val_dataset, test_dataset,
    \* --- position and observations of the calls made
    status,              \* "new", "ok" or "AssertionError" (of __init__)
    arg_batch_size,      \* the batch_size argument given to __init__
    last_op,             \* the method that returned last
    returned,            \* the DataLoader the last loader method returned
    prepared,            \* prepare_data has returned at least once
    requested,           \* dataset constructions made by prepare_data
    opened,              \* dataset constructions made by the last setup
    num_train, num_val,  \* the locals of setup's MNIST branch
    \* --- CenterCropMinXY.__call__
    image,               \* its argument
    cropped,             \* its return value
    crop_status          \* "idle", "input", "ok" or "AssertionError"

dmFields == <<name, data_dir, img_size, img_channels, batch_size, num_workers,
              pin_memory, persistent_workers, train_val_split, download,
              transforms>>
dmDatasets == <<train_dataset, val_dataset, test_dataset>>
dmVars == <<device_count, dmFields, dmDatasets, status, arg_batch_size,
            last_op, returned, prepared, requested, opened, num_train,
            num_val>>
cropVars == <<image, cropped, crop_status>>
vars == <<dmVars, cropVars>>

(* ----------------------------- arithmetic ----------------------------- *)
Min(a, b) == IF a <= b THEN a ELSE b
Max(a, b) == IF a >= b THEN a ELSE b

\* Python's int(a / b) for b > 0: the quotient truncated towards zero
IntTrunc(a, b) == IF a >= 0 THEN a \div b ELSE -((-a) \div b)

(* --------------------------- CenterCropMinXY -------------------------- *)
\* seq[lo:hi] of Python, for any integers lo and hi, on a dimension of size n:
\* the bounds are counted from the end when negative, then clamped to 0..n
PyIndex(i, n) == IF i < 0 THEN Max(i + n, 0) ELSE Min(i, n)

\* number of positions lo:hi selects
PySliceLen(lo, hi, n) == Max(PyIndex(hi, n) - PyIndex(lo, n), 0)

\* an image is its type, its shape and its pixels, indexed from 0
NoImage == [type |-> "none", shape |-> <<>>, at |-> <<>>]

Positions(shape) ==
    (0..(shape[1] - 1)) \X (0..(shape[2] - 1)) \X (0..(shape[3] - 1))

\* every pixel carries the position it has in the input
TaggedImage(type, shape) ==
    [type |-> type, shape |-> shape, at |-> [pos \in Positions(shape) |-> pos]]

ImageTypes == {"torch.Tensor", "numpy.ndarray", "PIL.Image"}

\* a crop taken at the end of the larger dimension instead of its centre
CropOffset_end(dim, min_dim) == dim - min_dim

\* top = (h - min_dim) // 2 and left = (w - min_dim) // 2
CropOffset(dim, min_dim) == (dim - min_dim) \div 2

\* image[:, top: top + min_dim, left: left + min_dim]
CenterCropMinXY(img) ==
    LET h == img.shape[2]
        w == img.shape[3]
        min_dim == Min(h, w)
        top == CropOffset(h, min_dim)
        left == CropOffset(w, min_dim)
        shape == << img.shape[1],
                    PySliceLen(top, top + min_dim, h),
                    PySliceLen(left, left + min_dim, w) >>
    IN  [ type  |-> img.type,
          shape |-> shape,
          at    |-> [ pos \in Positions(shape) |->
                        img.at[<< pos[1],
                                  PyIndex(top, h) + pos[2],
                                  PyIndex(left, w) + pos[3] >>] ] ]

\* CenterCropMinXY.__call__: the assertion on the type, then the crop
CenterCropMinXY_call ==
    /\ crop_status = "input"
    /\ IF image.type = "torch.Tensor"
       THEN /\ cropped' = CenterCropMinXY(image)
            /\ crop_status' = "ok"
       ELSE /\ cropped' = NoImage
            /\ crop_status' = "AssertionError"
    /\ UNCHANGED <<image, dmVars>>

(* --------------------------- transform chains ------------------------- *)
\* the number 0.5 as <<numerator, denominator>>
Half == <<1, 2>>

\* [0.5] * n
HalfList(n) == [i \in 1..n |-> Half]

ToTensor == [op |-> "ToTensor"]
Normalize(mean, std) == [op |-> "Normalize", mean |-> mean, std |-> std]
CenterCropMinXYStep == [op |-> "CenterCropMinXY"]
Resize(size) == [op |-> "Resize", size |-> size, antialias |-> TRUE]
RandomHorizontalFlip(p) == [op |-> "RandomHorizontalFlip", p |-> p]

\* transforms.Compose of the steps common to the three splits
BaseChain(channels, size) ==
    << ToTensor,
       Normalize(HalfList(channels), HalfList(channels)),
       CenterCropMinXYStep,
       Resize(size) >>

TrainChain(channels, size) ==
    BaseChain(channels, size) \o << RandomHorizontalFlip(Half) >>

TransformsTable(channels, size) ==
    [ train |-> TrainChain(channels, size),
      val   |-> BaseChain(channels, size),
      test  |-> BaseChain(channels, size) ]

\* the attribute self.transforms does not exist
NoTransforms == [train |-> <<>>, val |-> <<>>, test |-> <<>>]

(* ------------------------------ datasets ------------------------------ *)
\* the attribute does not exist
NoDataset ==
    [ family |-> "", root |-> "", split |-> "", classes |-> <<>>,
      target_type |-> "", transform |-> <<>>, download |-> FALSE,
      subset |-> FALSE, indices |-> <<>> ]

\* a dataset constructor call family(root, split=..., transform=...) as setup
\* writes it: no download argument is given (its default is False)
Dataset(family, root, split, transform) ==
    [ family |-> family, root |-> root, split |-> split, classes |-> <<>>,
      target_type |-> "", transform |-> transform, download |-> FALSE,
      subset |-> FALSE, indices |-> <<>> ]

\* torch.utils.data.Subset(ds, indices): reads ds through the given indices
Subset(ds, indices) == [ds EXCEPT !.subset = TRUE, !.indices = indices]

\* what a dataset constructor call reads (and fetches, when download is set)
Request(family, split, classes, flag) ==
    [family |-> family, split |-> split, classes |-> classes, download |-> flag]

\* the constructor call that built ds
OpenedBy(ds) == Request(ds.family, ds.split, ds.classes, ds.download)

NoLoader ==
    [ dataset |-> NoDataset, batch_size |-> 0, num_workers |-> 0,
      pin_memory |-> FALSE, persistent_workers |-> FALSE, shuffle |-> FALSE ]

(* ---------------------------- construction ---------------------------- *)
\* SEN12MSCR checked against 3 channels, as its assertion message says
sanity_check_msg(n, channels) ==
    IF n = "MNIST" THEN channels = 1 ELSE channels = 3

\* sanity_check: TRUE when no assertion fails
sanity_check(n, channels) ==
    IF n = "MNIST" THEN channels = 1
    ELSE IF n = "SEN12MSCR" THEN channels = 2
    ELSE channels = 3

\* the divisor of batch_size in __init__
BatchDivisor(devices) == IF devices > 1 THEN devices ELSE 1

\* the quotient rounded up instead of truncated
StoredBatchSize_ceil(requestedSize, devices) ==
    (requestedSize + BatchDivisor(devices) - 1) \div BatchDivisor(devices)

\* int(batch_size / (device_count if device_count > 1 else 1))
StoredBatchSize(requestedSize, devices) ==
    IntTrunc(requestedSize, BatchDivisor(devices))

Init ==
    /\ device_count \in 0..MaxDevices
    /\ name = ""
    /\ data_dir = ""
    /\ img_size = 0
    /\ img_channels = 0
    /\ batch_size = 0
    /\ num_workers = 0
    /\ pin_memory = FALSE
    /\ persistent_workers = FALSE
    /\ train_val_split = 0
    /\ download = FALSE
    /\ transforms = NoTransforms
    /\ train_dataset = NoDataset
    /\ val_dataset = NoDataset
    /\ test_dataset = NoDataset
    /\ status = "new"
    /\ arg_batch_size = 0
    /\ last_op = "none"
    /\ returned = NoLoader
    /\ prepared = FALSE
    /\ requested = {}
    /\ opened = {}
    /\ num_train = 0
    /\ num_val = 0
    /\ image = NoImage
    /\ cropped = NoImage
    /\ crop_status = "idle"

\* DataModule.__init__: the attributes are stored, then sanity_check runs,
\* and only when it passes is self.transforms assigned
DataModule_init ==
    /\ status = "new"
    /\ \E n \in Names, size \in ImgSizes, channels \in 0..MaxChannels,
          bs \in 1..MaxBatch, la \in LoaderArgs, tvs \in SplitNumerators,
          dl \in BOOLEAN :
         /\ name' = n
         /\ data_dir' = "DATASET_PATH"
         /\ img_size' = size
         /\ img_channels' = channels
         /\ batch_size' = StoredBatchSize(bs, device_count)
         /\ arg_batch_size' = bs
         /\ num_workers' = la[1]
         /\ pin_memory' = la[2]
         /\ persistent_workers' = la[3]
         /\ train_val_split' = tvs
         /\ download' = dl
         /\ IF sanity_check(n, channels)
            THEN /\ transforms' = TransformsTable(channels, size)
                 /\ status' = "ok"
            ELSE /\ transforms' = NoTransforms
                 /\ status' = "AssertionError"
    /\ last_op' = "__init__"
    /\ UNCHANGED <<device_count, dmDatasets, returned, prepared, requested,
                   opened, num_train, num_val, cropVars>>

(* ---------------------------- prepare_data ---------------------------- *)
\* CelebA's validation split asked for under the name the other families use
PrepareRequests_val(n, flag) ==
    IF n = "MNIST" THEN
        { Request("MNIST", "train=True", <<>>, flag),
          Request("MNIST", "train=False", <<>>, flag) }
    ELSE IF n \in {"CelebA", "Flowers102"} THEN
        { Request(n, s, <<>>, flag) : s \in {"train", "val", "test"} }
    ELSE {}

\* the dataset constructions prepare_data makes for the name n
PrepareRequests(n, flag) ==
    IF n = "MNIST" THEN
        { Request("MNIST", "train=True", <<>>, flag),
          Request("MNIST", "train=False", <<>>, flag) }
    ELSE IF n = "CelebA" THEN
        { Request("CelebA", s, <<>>, flag) : s \in {"train", "valid", "test"} }
    ELSE IF n = "Flowers102" THEN
        { Request("Flowers102", s, <<>>, flag) : s \in {"train", "val", "test"} }
    ELSE {}

prepare_data ==
    /\ status = "ok"
    /\ requested' = requested \cup PrepareRequests(name, download)
    /\ prepared' = TRUE
    /\ last_op' = "prepare_data"
    /\ returned' = NoLoader
    /\ UNCHANGED <<device_count, dmFields, dmDatasets, status, arg_batch_size,
                   opened, num_train, num_val, cropVars>>

(* -------------------------------- setup ------------------------------- *)
\* seq[lo:hi] of Python on a list
PySlice(seq, lo, hi) ==
    LET a == PyIndex(lo, Len(seq))
        b == PyIndex(hi, Len(seq))
    IN  [j \in 1..Max(b - a, 0) |-> seq[a + j]]

\* torch.randperm(n).tolist(): the orderings of 0..n-1
RandPerms(n) ==
    { p \in [1..n -> 0..(n - 1)] : \A i, j \in 1..n : p[i] = p[j] => i = j }

\* itertools.accumulate(lengths)[k]
RECURSIVE Accumulate(_, _)
Accumulate(lengths, k) ==
    IF k = 0 THEN 0 ELSE Accumulate(lengths, k - 1) + lengths[k]

\* torch.utils.data.random_split(ds, lengths) with the permutation perm:
\* part k reads perm[offset - length : offset], offset = accumulate(lengths)[k]
random_split(ds, lengths, perm) ==
    [ k \in 1..Len(lengths) |->
        Subset(ds, PySlice(perm,
                           Accumulate(lengths, k) - lengths[k],
                           Accumulate(lengths, k))) ]

\* round(...) in place of int(...)
NumTrain_round(n, tvs) == IntTrunc(2 * n * tvs + SplitDen, 2 * SplitDen)

\* num_train = int(len(full_train_dataset) * self.train_val_split)
NumTrain(n, tvs) == IntTrunc(n * tvs, SplitDen)

\* num_val = len(full_train_dataset) - num_train
NumVal(n, tvs) == n - NumTrain(n, tvs)

\* each branch of setup gives the three datasets it assigns
MNIST_setup(tr, dir, tvs, perm) ==
    LET full_train_dataset == Dataset("MNIST", dir, "train=True", tr.train)
        parts == random_split(full_train_dataset,
                              << NumTrain(TrainLen, tvs), NumVal(TrainLen, tvs) >>,
                              perm)
    IN  [ train |-> parts[1],
          val   |-> parts[2],
          test  |-> Dataset("MNIST", dir, "train=False", tr.test) ]

LSUN_classes == << "bedroom" >>
LSUN_train_classes == [i \in 1..Len(LSUN_classes) |-> LSUN_classes[i] \o "_train"]
LSUN_val_classes == [i \in 1..Len(LSUN_classes) |-> LSUN_classes[i] \o "_val"]
LSUN_test_classes == [i \in 1..Len(LSUN_classes) |-> LSUN_classes[i] \o "_val"]

LSUN_dataset(dir, classes, transform) ==
    [ Dataset("LSUN", dir \o "/LSUN", "", transform) EXCEPT !.classes = classes ]

LSUN_setup(tr, dir) ==
    [ train |-> LSUN_dataset(dir, LSUN_train_classes, tr.train),
      val   |-> LSUN_dataset(dir, LSUN_val_classes, tr.val),
      test  |-> LSUN_dataset(dir, LSUN_test_classes, tr.test) ]

CelebA_dataset(dir, split, transform) ==
    [ Dataset("CelebA", dir, split, transform) EXCEPT !.target_type = "attr" ]

CelebA_setup(tr, dir) ==
    [ train |-> CelebA_dataset(dir, "train", tr.train),
      val   |-> CelebA_dataset(dir, "valid", tr.val),
      test  |-> CelebA_dataset(dir, "test", tr.test) ]

Flowers102_setup(tr, dir) ==
    [ train |-> Dataset("Flowers102", dir, "train", tr.train),
      val   |-> Dataset("Flowers102", dir, "val", tr.val),
      test  |-> Dataset("Flowers102", dir, "test", tr.test) ]

\* the test split left unassigned
SEN12MSCR_setup_notest(tr, dir) ==
    [ train |-> Dataset("SEN12MSCR", dir, "train", tr.train),
      val   |-> Dataset("SEN12MSCR", dir, "val", tr.val),
      test  |-> NoDataset ]

SEN12MSCR_setup(tr, dir) ==
    [ train |-> Dataset("SEN12MSCR", dir, "train", tr.train),
      val   |-> Dataset("SEN12MSCR", dir, "val", tr.val),
      test  |-> Dataset("SEN12MSCR", dir, "test", tr.test) ]

\* the dataset constructions one setup call makes
SetupOpens(n, result) ==
    IF n = "MNIST"
    THEN { OpenedBy(result.train), OpenedBy(result.test) }
    ELSE { OpenedBy(result.train), OpenedBy(result.val), OpenedBy(result.test) }

\* only the MNIST branch draws a permutation
SetupPerms(n) == IF n = "MNIST" THEN RandPerms(TrainLen) ELSE { <<>> }

\* setup(stage): the stage argument is never read
setup ==
    /\ status = "ok"
    /\ \E perm \in SetupPerms(name) :
         IF name \in RecognisedNames
         THEN LET result ==
                      IF name = "MNIST"
                      THEN MNIST_setup(transforms, data_dir, train_val_split, perm)
                      ELSE IF name = "LSUN" THEN LSUN_setup(transforms, data_dir)
                      ELSE IF name = "CelebA" THEN CelebA_setup(transforms, data_dir)
                      ELSE IF name = "Flowers102"
                      THEN Flowers102_setup(transforms, data_dir)
                      ELSE SEN12MSCR_setup(transforms, data_dir)
              IN  /\ train_dataset' = result.train
                  /\ val_dataset' = result.val
                  /\ test_dataset' = result.test
                  /\ opened' = SetupOpens(name, result)
                  /\ IF name = "MNIST"
                     THEN /\ num_train' = NumTrain(TrainLen, train_val_split)
                          /\ num_val' = NumVal(TrainLen, train_val_split)
                     ELSE UNCHANGED <<num_train, num_val>>
         ELSE /\ opened' = {}
              /\ UNCHANGED <<dmDatasets, num_train, num_val>>
    /\ last_op' = "setup"
    /\ returned' = NoLoader
    /\ UNCHANGED <<device_count, dmFields, status, arg_batch_size, prepared,
                   requested, cropVars>>

(* ------------------------------- loaders ------------------------------ *)
\* DataLoader(ds, batch_size=, num_workers=, pin_memory=, persistent_workers=,
\* shuffle=): shuffle is False when not given
DataLoader(ds, bs, nw, pm, pw, shuffle) ==
    [ dataset |-> ds, batch_size |-> bs, num_workers |-> nw, pin_memory |-> pm,
      persistent_workers |-> pw, shuffle |-> shuffle ]

TrainLoader ==
    DataLoader(train_dataset, batch_size, num_workers, pin_memory,
               persistent_workers, TRUE)

\* the validation loader built like the train loader
ValLoader_shuffled ==
    DataLoader(val_dataset, batch_size, num_workers, pin_memory,
               persistent_workers, TRUE)

ValLoader ==
    DataLoader(val_dataset, batch_size, num_workers, pin_memory,
               persistent_workers, FALSE)

TestLoader ==
    DataLoader(test_dataset, batch_size, num_workers, pin_memory,
               persistent_workers, FALSE)

\* reading a dataset attribute that setup has not assigned raises
\* AttributeError and leaves the object as it was
train_dataloader ==
    /\ status = "ok"
    /\ train_dataset # NoDataset
    /\ returned' = TrainLoader
    /\ last_op' = "train_dataloader"
    /\ UNCHANGED <<device_count, dmFields, dmDatasets, status, arg_batch_size,
                   prepared, requested, opened, num_train, num_val, cropVars>>

val_dataloader ==
    /\ status = "ok"
    /\ val_dataset # NoDataset
    /\ returned' = ValLoader
    /\ last_op' = "val_dataloader"
    /\ UNCHANGED <<device_count, dmFields, dmDatasets, status, arg_batch_size,
                   prepared, requested, opened, num_train, num_val, cropVars>>

test_dataloader ==
    /\ status = "ok"
    /\ test_dataset # NoDataset
    /\ returned' = TestLoader
    /\ last_op' = "test_dataloader"
    /\ UNCHANGED <<device_count, dmFields, dmDatasets, status, arg_batch_size,
                   prepared, requested, opened, num_train, num_val, cropVars>>

Next ==
    \/ DataModule_init
    \/ prepare_data
    \/ setup
    \/ train_dataloader
    \/ val_dataloader
    \/ test_dataloader

Spec == Init /\ [][Next]_vars

\* CenterCropMinXY on its own: every input image, then the call
InitCrop ==
    /\ Init
    /\ device_count = 0

CropInputs ==
    { TaggedImage(type, <<c, h, w>>) :
        type \in ImageTypes, c \in 1..MaxC, h \in 0..MaxDim, w \in 0..MaxDim }

CropGiven ==
    /\ crop_status = "idle"
    /\ image' \in CropInputs
    /\ crop_status' = "input"
    /\ UNCHANGED <<cropped, dmVars>>

NextCrop ==
    \/ CropGiven
    \/ CenterCropMinXY_call

SpecCrop == InitCrop /\ [][NextCrop]_vars

(* ====================================================================== *)
(*                               properties                               *)
(* ====================================================================== *)
LoaderOps == {"train_dataloader", "val_dataloader", "test_dataloader"}

\* setup has returned on a DataModule with one of the five names
SetupDone == name \in RecognisedNames /\ (last_op = "setup" \/ opened # {})

Range(seq) == { seq[i] : i \in 1..Len(seq) }

C2_AllThreeAssigned ==
    SetupDone =>
        \A ds \in {train_dataset, val_dataset, test_dataset} :
            ds # NoDataset /\ ds.family = name

C2_Witness ==
    /\ last_op = "setup"
    /\ name = "SEN12MSCR"
    /\ test_dataset.family = "SEN12MSCR"
    /\ test_dataset.split = "test"

\* two datasets read a common item: the same split or class list of the same
\* family, and, where both are subsets of it, a common index
SharesSource(a, b) ==
    /\ a.family = b.family
    /\ a.split = b.split
    /\ a.classes = b.classes
    /\ (a.subset /\ b.subset) => Range(a.indices) \cap Range(b.indices) # {}

\* C3: after setup with one of the five names, the train, validation and
\* test datasets are drawn from pairwise different source data.
C3_PairwiseDifferentSources ==
    SetupDone =>
        /\ ~SharesSource(train_dataset, val_dataset)
        /\ ~SharesSource(train_dataset, test_dataset)
        /\ ~SharesSource(val_dataset, test_dataset)

\* the rows (dim = 2) or columns (dim = 3) of the input that the output keeps
KeptAlong(dim) == { cropped.at[pos][dim] : pos \in Positions(cropped.shape) }

\* the larger dimension loses floor(excess / 2) at its start and the rest,
\* ceil(excess / 2), at its end; a dimension without excess is kept whole
KeepsCentre(dim, m) ==
    LET size == image.shape[dim]
        excess == size - m
    IN  m > 0 => KeptAlong(dim) = (excess \div 2)..(size - 1 - ((excess + 1) \div 2))

\* C4: CenterCropMinXY on a tensor of shape (c, h, w) returns shape (c, m, m),
\* m = min(h, w), with pixel (k, i, j) the input pixel
\* (k, i + (h - m) // 2, j + (w - m) // 2); the window lies inside the input,
\* the larger dimension loses floor at its start and ceil at its end, the
\* smaller dimension and the channels are whole; a non-tensor is rejected by
\* the assertion.
C4_CenterCrop ==
    crop_status \in {"ok", "AssertionError"} =>
        IF image.type = "torch.Tensor"
        THEN LET c == image.shape[1]
                 h == image.shape[2]
                 w == image.shape[3]
                 m == IF h <= w THEN h ELSE w
             IN  /\ crop_status = "ok"
                 /\ cropped.type = "torch.Tensor"
                 /\ cropped.shape = <<c, m, m>>
                 /\ \A pos \in Positions(<<c, m, m>>) :
                        /\ cropped.at[pos] \in Positions(image.shape)
                        /\ cropped.at[pos] =
                               << pos[1],
                                  pos[2] + (h - m) \div 2,
                                  pos[3] + (w - m) \div 2 >>
                 /\ KeepsCentre(2, m)
                 /\ KeepsCentre(3, m)
                 /\ m > 0 => KeptAlong(1) = 0..(c - 1)
        ELSE crop_status = "AssertionError" /\ cropped = NoImage

\* a tall tensor with an odd excess: one row lost at the top, two at the bottom
C4_Witness ==
    /\ crop_status = "ok"
    /\ image.shape = <<2, 4, 1>>
    /\ cropped.shape = <<2, 1, 1>>
    /\ cropped.at[<<1, 0, 0>>] = <<1, 1, 0>>

\* C5: after setup, each loader method returns a DataLoader over its own
\* dataset with the stored batch_size, num_workers, pin_memory and
\* persistent_workers; only the train loader shuffles; and the call changes
\* no attribute and no dataset of the DataModule.
C5_LoadersAndFrame ==
    [][ last_op' \in LoaderOps =>
          /\ UNCHANGED <<dmFields, dmDatasets>>
          /\ returned'.dataset =
                 ( IF last_op' = "train_dataloader" THEN train_dataset
                   ELSE IF last_op' = "val_dataloader" THEN val_dataset
                   ELSE test_dataset )
          /\ returned'.dataset # NoDataset
          /\ returned'.batch_size = batch_size
          /\ returned'.num_workers = num_workers
          /\ returned'.pin_memory = pin_memory
          /\ returned'.persistent_workers = persistent_workers
          /\ returned'.shuffle = (last_op' = "train_dataloader") ]_vars

C5_Witness ==
    /\ last_op = "val_dataloader"
    /\ name = "CelebA"
    /\ returned.dataset = val_dataset
    /\ returned.dataset.split = "valid"
    /\ returned.num_workers = 2
    /\ ~returned.shuffle

\* the chain the validation and test splits are to apply
EvalChainOf(channels, size) ==
    << [op |-> "ToTensor"],
       [op |-> "Normalize", mean |-> [i \in 1..channels |-> <<1, 2>>],
                            std |-> [i \in 1..channels |-> <<1, 2>>]],
       [op |-> "CenterCropMinXY"],
       [op |-> "Resize", size |-> size, antialias |-> TRUE] >>

\* C6: after setup with one of the five names, the train dataset applies
\* ToTensor, Normalize(0.5 per channel), CenterCropMinXY, Resize(img_size),
\* RandomHorizontalFlip(0.5) in this order, and the validation and the test
\* dataset apply the first four and no flip.
C6_ChainPerSplit ==
    SetupDone =>
        /\ train_dataset.transform =
               EvalChainOf(img_channels, img_size)
                   \o << [op |-> "RandomHorizontalFlip", p |-> <<1, 2>>] >>
        /\ val_dataset.transform = EvalChainOf(img_channels, img_size)
        /\ test_dataset.transform = EvalChainOf(img_channels, img_size)

\* C7: in setup for MNIST, num_train is the integer part of N * s and
\* num_val = N - num_train, so they add up to N for every s; for 0 <= s <= 1
\* both lie in 0..N and the train and validation datasets are disjoint
\* subsets of the full training set, of these sizes, that together cover it.
C7_MnistSplit ==
    (name = "MNIST" /\ opened # {}) =>
        LET N == TrainLen
            p == train_val_split
        IN  /\ num_train + num_val = N
            /\ p >= 0 => /\ num_train * SplitDen <= N * p
                         /\ N * p < (num_train + 1) * SplitDen
            /\ p < 0 => /\ (num_train - 1) * SplitDen < N * p
                        /\ N * p <= num_train * SplitDen
            /\ (0 <= p /\ p <= SplitDen) =>
                   /\ num_train \in 0..N
                   /\ num_val \in 0..N
                   /\ \A ds \in {train_dataset, val_dataset} :
                          /\ ds.subset
                          /\ ds.family = "MNIST"
                          /\ ds.split = "train=True"
                   /\ Len(train_dataset.indices) = num_train
                   /\ Len(val_dataset.indices) = num_val
                   /\ Range(train_dataset.indices) \cap Range(val_dataset.indices) = {}
                   /\ Range(train_dataset.indices) \cup Range(val_dataset.indices)
                          = 0..(N - 1)

\* a split fraction strictly inside (0, 1) whose product with N is truncated
C7_Witness ==
    /\ name = "MNIST"
    /\ last_op = "setup"
    /\ 0 < train_val_split /\ train_val_split < SplitDen
    /\ num_train * SplitDen < TrainLen * train_val_split
    /\ num_train > 0
    /\ num_val > 0

Downloadable == {"MNIST", "CelebA", "Flowers102"}

\* the request prepare_data has to have made for setup's construction o
AsRequested(o) == [o EXCEPT !.download = download]

\* C8 as stated: for each of the five names, every source split that setup
\* opens was requested by a preceding prepare_data call with the stored
\* download flag.
C8_EveryOpenedSplitRequested ==
    (prepared /\ last_op = "setup" /\ name \in RecognisedNames) =>
        /\ opened # {}
        /\ \A o \in opened : AsRequested(o) \in requested

\* C8 amended: for MNIST, CelebA and Flowers102, whenever prepare_data was
\* called before setup, every source split setup opens was requested by it
\* with the stored download flag; for the other names prepare_data requests
\* nothing; setup never requests a download; prepare_data assigns no dataset.
C8_PrepareCoversDownloadable ==
    [][ /\ last_op' = "prepare_data" =>
              /\ UNCHANGED dmDatasets
              /\ name \notin Downloadable => requested' = {}
              /\ \A r \in requested' : r.download = download
        /\ last_op' = "setup" =>
              /\ \A o \in opened' : ~o.download
              /\ name \in RecognisedNames => opened' # {}
              /\ (prepared /\ name \in Downloadable) =>
                     \A o \in opened' : AsRequested(o) \in requested ]_vars

C8_Witness ==
    /\ prepared
    /\ last_op = "setup"
    /\ name = "CelebA"
    /\ download
    /\ [family |-> "CelebA", split |-> "valid", classes |-> <<>>,
        download |-> FALSE] \in opened
    /\ [family |-> "CelebA", split |-> "valid", classes |-> <<>>,
        download |-> TRUE] \in requested

\* C9: the stored batch size is the requested one divided by d and
\* truncated, d the device count when it exceeds 1 and 1 otherwise: equal to
\* the requested size with 0 or 1 devices, stored * d <= requested <
\* (stored + 1) * d with more, at least 1 when requested >= d; and it is the
\* batch size of all three loaders.
C9_BatchSizePerDevice ==
    status # "new" =>
        LET d == IF device_count > 1 THEN device_count ELSE 1
        IN  /\ device_count <= 1 => batch_size = arg_batch_size
            /\ batch_size * d <= arg_batch_size
            /\ arg_batch_size < (batch_size + 1) * d
            /\ arg_batch_size >= d => batch_size >= 1
            /\ last_op \in LoaderOps => returned.batch_size = batch_size

\* three requested on two devices: one per device, the remainder dropped
C9_Witness ==
    /\ device_count = 2
    /\ arg_batch_size = 3
    /\ batch_size = 1
    /\ last_op = "test_dataloader"
    /\ returned.batch_size = 1
====
